---- MODULE Spec2Model ----
(***************************************************************************)
(* Vintage Clothier API (src/main.py, src/schemas.py): the configuration   *)
(* completion engine, the recommendation ranker, the rule-based chat       *)
(* router and the product collection they read.                            *)
(*                                                                         *)
(* Conventions of the model                                                *)
(*   - Python str values are TLA+ strings; lower() and the substring test  *)
(*     `a in b` are computed character by character.                       *)
(*   - An Optional value is a sequence of length at most one: None is <<>> *)
(*     and a present value v is <<v>>, so that None and "" stay distinct.  *)
(*   - Money is counted in cents and a chest measurement in millimetres,   *)
(*     so that 129.99 and 89.9 are integers; the price multiplier is       *)
(*     counted in hundredths.                                              *)
(*   - A Python dict is a function whose DOMAIN is its key set.            *)
(***************************************************************************)
EXTENDS Integers, Sequences, FiniteSets, TLC

VARIABLES
    products,     \* the "product" collection of the document store, in insertion order
    pc,           \* "idle": no call in flight; "done": a handler has run, its response is undelivered
    op,           \* the handler of the call in flight
    request,      \* the arguments of the call in flight
    response,     \* [status, body] of the call in flight
    fetched,      \* what get_documents returned to recommendations in this call (Optional)
    rankerCalls   \* the RecommendationRequests the chat router handed to recommendations in this call

vars == <<products, pc, op, request, response, fetched, rankerCalls>>

(***************************************************************************)
(* Python values                                                           *)
(***************************************************************************)
None == <<>>
Some(v) == <<v>>

\* bool(x) of an Optional[str]: None and "" are falsy.
Truthy(o) == o # None /\ o[1] # ""

\* bool(x) of an Optional number: None and 0 are falsy.
TruthyNum(o) == o # None /\ o[1] # 0

\* dict.get(key, default)
Get(d, key, default) == IF key \in DOMAIN d THEN d[key] ELSE default

EmptyDict == [k \in {} |-> ""]

UpperChars == "ABCDEFGHIJKLMNOPQRSTUVWXYZ"
LowerChars == "abcdefghijklmnopqrstuvwxyz"

UpperSet == {SubSeq(UpperChars, i, i) : i \in 1..Len(UpperChars)}

LowerMap ==
    [c \in UpperSet |->
        LET i == CHOOSE j \in 1..Len(UpperChars) : SubSeq(UpperChars, j, j) = c
        IN  SubSeq(LowerChars, i, i)]

LowerChar(c) == IF c \in UpperSet THEN LowerMap[c] ELSE c

\* str.lower()
RECURSIVE Lower(_)
Lower(s) ==
    IF Len(s) = 0 THEN ""
    ELSE LowerChar(SubSeq(s, 1, 1)) \o Lower(SubSeq(s, 2, Len(s)))

\* `sub in s` on strings
Contains(sub, s) ==
    \E i \in 0..(Len(s) - Len(sub)) : SubSeq(s, i + 1, i + Len(sub)) = sub

\* seq[:n]
Take(seq, n) == SubSeq(seq, 1, IF Len(seq) < n THEN Len(seq) ELSE n)

\* round(x, 2) of a price: n is the price in units of 1/10000 (cents times
\* hundredths); the result is in cents, to nearest. Python rounds the binary
\* value, so a decimal tie goes wherever its double lies; here it goes to
\* even, and no price of the inputs below is a tie.
Round2(n) ==
    LET q == n \div 100
        r == n % 100
    IN  IF r < 50 THEN q
        ELSE IF r > 50 THEN q + 1
        ELSE IF q % 2 = 0 THEN q ELSE q + 1

(***************************************************************************)
(* schemas.py                                                              *)
(***************************************************************************)
\* Measurement: seven optional bounded numbers; only chest_cm is read.
Measurement(chest) ==
    [height_cm |-> None, weight_kg |-> None, chest_cm |-> chest, waist_cm |-> None,
     hips_cm |-> None, sleeve_cm |-> None, inseam_cm |-> None]

\* Customization(category=...) with every other field at its default.
Customization(category) ==
    [product_id |-> None, category |-> category, color |-> None, fabric |-> None,
     size |-> None, fit |-> None, pattern |-> None, preferences |-> None,
     auto |-> FALSE, measurements |-> None]

\* RecommendationRequest(...) with the unused fields at their default.
RecommendationRequest(purpose, style, budget, category) ==
    [purpose |-> purpose, style |-> style, climate |-> None, budget |-> budget,
     category |-> category, colors |-> None]

\* Product as create_product receives it (the option lists default to []).
Product(title, category, base_price, colors, fabrics, sizes, fits, patterns) ==
    [title |-> title, description |-> None, category |-> category,
     base_price |-> base_price, images |-> <<>>, colors |-> colors,
     fabrics |-> fabrics, sizes |-> sizes, fits |-> fits, patterns |-> patterns,
     tags |-> <<>>, in_stock |-> TRUE]

(***************************************************************************)
(* auto_complete_customization                                             *)
(***************************************************************************)
\* "no product": the None that customize passes when it has no product.
NoProduct == [none |-> TRUE]

\* bool(product): None and the empty dict are falsy.
HasProduct(product) == product # NoProduct /\ DOMAIN product # {}

defaults ==
    [suit     |-> [fit |-> "tailored", fabric |-> "worsted wool", color |-> "navy", pattern |-> "solid"],
     boots    |-> [color |-> "oxblood", fabric |-> "full-grain leather", fit |-> "regular"],
     shoes    |-> [color |-> "chestnut", fabric |-> "calf leather", fit |-> "regular"],
     hat      |-> [color |-> "charcoal", fabric |-> "felt", pattern |-> "solid"],
     belt     |-> [color |-> "dark brown", fabric |-> "leather"],
     shirt    |-> [color |-> "white", fabric |-> "oxford", fit |-> "slim"],
     trousers |-> [color |-> "charcoal", fabric |-> "wool", fit |-> "classic"]]

OptionKeys == {"color", "fabric", "size", "fit", "pattern"}

\* product.get(key + "s") if key + "s" in product else product.get(key), kept
\* only when it is a list: a product without the plural key has no
\* same-named list either (Product has none), so the lookup yields no list.
ProductOptions(product, key) ==
    IF (key \o "s") \in DOMAIN product THEN product[key \o "s"] ELSE <<>>

\* Lines 94-99: a field that is falsy takes the first element of the
\* product's non-empty option list.
PullProductOptions(result, product) ==
    IF HasProduct(product)
    THEN [k \in DOMAIN result |->
            IF k \in OptionKeys /\ ~Truthy(result[k]) /\ Len(ProductOptions(product, k)) > 0
            THEN Some(ProductOptions(product, k)[1])
            ELSE result[k]]
    ELSE result

\* A bug: result[k] = v, without looking at the value already there.
ApplyDefaults_Overwrite(result, base) ==
    [k \in DOMAIN result |-> IF k \in DOMAIN base THEN Some(base[k]) ELSE result[k]]

\* Lines 102-103: result[k] = result.get(k) or v, for every (k, v) of the
\* category's default bundle.
ApplyDefaults(result, base) ==
    [k \in DOMAIN result |->
        IF k \in DOMAIN base /\ ~Truthy(result[k]) THEN Some(base[k]) ELSE result[k]]

\* A bug: the bands closed at their upper end.
ChestSize_Inclusive(chest) ==
    IF chest <= 900 THEN "XS"
    ELSE IF chest <= 960 THEN "S"
    ELSE IF chest <= 1020 THEN "M"
    ELSE IF chest <= 1100 THEN "L"
    ELSE "XL"

\* Lines 108-117: the size band of a chest measurement (in millimetres).
ChestSize(chest) ==
    IF chest < 900 THEN "XS"
    ELSE IF chest < 960 THEN "S"
    ELSE IF chest < 1020 THEN "M"
    ELSE IF chest < 1100 THEN "L"
    ELSE "XL"

\* Lines 106-117.
InferSize(result, m) ==
    IF ~Truthy(result.size) /\ m # None /\ TruthyNum(m[1].chest_cm)
    THEN [result EXCEPT !.size = Some(ChestSize(m[1].chest_cm[1]))]
    ELSE result

\* A bug: wool tested before cashmere.
FabricBonus_WoolFirst(result) ==
    IF Truthy(result.fabric)
    THEN LET fab == Lower(result.fabric[1])
         IN  IF Contains("wool", fab) THEN 25
             ELSE IF Contains("cashmere", fab) THEN 60
             ELSE IF Contains("leather", fab) THEN 35
             ELSE IF Contains("linen", fab) THEN 15
             ELSE 0
    ELSE 0

\* Lines 122-131: the fabric bonus, in hundredths.
FabricBonus(result) ==
    IF Truthy(result.fabric)
    THEN LET fab == Lower(result.fabric[1])
         IN  IF Contains("cashmere", fab) THEN 60
             ELSE IF Contains("wool", fab) THEN 25
             ELSE IF Contains("leather", fab) THEN 35
             ELSE IF Contains("linen", fab) THEN 15
             ELSE 0
    ELSE 0

\* Lines 132-133.
PatternBonus(result) ==
    IF Truthy(result.pattern)
       /\ Lower(result.pattern[1]) \in {"pinstripe", "herringbone", "houndstooth"}
    THEN 10 ELSE 0

\* Lines 134-135.
FitBonus(result) ==
    IF Truthy(result.fit) /\ Lower(result.fit[1]) \in {"tailored", "slim"}
    THEN 5 ELSE 0

\* Line 120: product.get("base_price", 300) if product else 300, in cents.
BasePrice(product) ==
    IF HasProduct(product) THEN Get(product, "base_price", 30000) ELSE 30000

\* Lines 119-137.
EstimatePrice(result, product) ==
    Round2(BasePrice(product) * (100 + FabricBonus(result) + PatternBonus(result) + FitBonus(result)))

\* A bug: the category defaults applied before the product's options.
auto_complete_DefaultsFirst(cust, product) ==
    LET base   == Get(defaults, cust.category, EmptyDict)
        result == InferSize(PullProductOptions(ApplyDefaults(cust, base), product),
                            cust.measurements)
    IN  [config |-> result, est_price |-> EstimatePrice(result, product)]

\* Lines 75-139.
auto_complete_customization(cust, product) ==
    LET base   == Get(defaults, cust.category, EmptyDict)
        result == InferSize(ApplyDefaults(PullProductOptions(cust, product), base),
                            cust.measurements)
    IN  [config |-> result, est_price |-> EstimatePrice(result, product)]

(***************************************************************************)
(* The document store (database module) and bson.ObjectId                  *)
(***************************************************************************)
MaxProducts == 7

Digit(n) == SubSeq("0123456789", n + 1, n + 1)

\* str(ObjectId): 24 hexadecimal characters; the n-th inserted document.
OidStr(n) == "65f0c0ffee00000000000" \o Digit(n \div 100) \o Digit((n \div 10) % 10) \o Digit(n % 10)

HexChars == "0123456789abcdefABCDEF"

\* ObjectId(s) accepts exactly the 24-character hexadecimal strings and
\* raises on every other string.
IsObjectId(s) ==
    /\ Len(s) = 24
    /\ \A i \in 1..Len(s) : Contains(SubSeq(s, i, i), HexChars)

\* create_document(collection, data): the store keeps the document with a
\* fresh _id.
create_document(coll, data) ==
    Append(coll, [k \in DOMAIN data \cup {"_id"} |->
                     IF k = "_id" THEN Len(coll) + 1 ELSE data[k]])

Matches(doc, filt) == \A k \in DOMAIN filt : k \in DOMAIN doc /\ doc[k] = filt[k]

\* get_documents(collection, filter, limit)
get_documents(coll, filt, limit) ==
    Take(SelectSeq(coll, LAMBDA d : Matches(d, filt)), limit)

\* db["product"].find_one({"_id": oid}): the document or None.
find_one(coll, oidstr) ==
    LET hits == SelectSeq(coll, LAMBDA d : OidStr(d._id) = Lower(oidstr))
    IN  IF Len(hits) > 0 THEN Some(hits[1]) ELSE None

(***************************************************************************)
(* POST /products                                                          *)
(***************************************************************************)
create_product(coll, product, dbFails) ==
    IF dbFails
    THEN [status |-> "error", body |-> None, coll |-> coll]
    ELSE [status |-> "ok", body |-> Some(OidStr(Len(coll) + 1)),
          coll |-> create_document(coll, product)]

(***************************************************************************)
(* POST /customize                                                         *)
(***************************************************************************)
\* Lines 150-151: product["id"] = str(product.pop("_id")).
WithId(doc) ==
    [k \in (DOMAIN doc \ {"_id"}) \cup {"id"} |->
        IF k = "id" THEN OidStr(doc._id) ELSE doc[k]]

\* Lines 145-153: the product the handler loads; every exception of the
\* lookup (a malformed id, a failing or missing store) leaves None.
LoadProduct(coll, cust, dbFails) ==
    IF Truthy(cust.product_id)
    THEN IF ~IsObjectId(cust.product_id[1]) \/ dbFails
         THEN NoProduct
         ELSE LET found == find_one(coll, cust.product_id[1])
              IN  IF found # None THEN WithId(found[1]) ELSE NoProduct
    ELSE NoProduct

customize(coll, cust, dbFails) ==
    [status |-> "ok",
     body |-> Some(auto_complete_customization(cust, LoadProduct(coll, cust, dbFails)))]

(***************************************************************************)
(* POST /recommendations                                                   *)
(***************************************************************************)
seed ==
    << [title |-> "Savile Row Three-Piece Suit", category |-> "suit", base_price |-> 120000],
       [title |-> "Full-Grain Leather Boots", category |-> "boots", base_price |-> 38000],
       [title |-> "Classic Oxford Shirt", category |-> "shirt", base_price |-> 12000] >>

\* Lines 183-185.
CategoryFilter(req) ==
    IF Truthy(req.category) THEN [category |-> req.category[1]] ELSE EmptyDict

\* Line 203: req.budget and price > req.budget * 1.2 (both sides in cents).
OverBudget(req, price) ==
    TruthyNum(req.budget) /\ price * 10 > req.budget[1] * 12

\* Lines 205-209.
Rationale(req) ==
    IF Truthy(req.purpose) /\ Contains("wedding", Lower(req.purpose[1]))
    THEN "Formal-appropriate with elevated finishing"
    ELSE IF Truthy(req.style) /\ Lower(req.style[1]) \in {"vintage", "classic"}
    THEN "Vintage-forward aesthetic with timeless details"
    ELSE "Balanced choice with premium materials"

\* Line 200.
CandidateCategory(p, req) ==
    Get(p, "category", IF Truthy(req.category) THEN req.category[1] ELSE "suit")

\* Lines 210-217.
MakeRecommendation(p, req, comp) ==
    [product_id |-> IF "_id" \in DOMAIN p THEN Some(OidStr(p._id)) ELSE None,
     title |-> Get(p, "title", None),
     category |-> Get(p, "category", None),
     suggested_config |-> comp.config,
     est_price |-> comp.est_price,
     rationale |-> Rationale(req)]

\* Lines 199-219: the loop body from candidate i on, with `continue` for a
\* candidate over budget and `break` once three are accumulated.
RECURSIVE RankLoop(_, _, _, _)
RankLoop(cands, i, req, out) ==
    IF i > Len(cands) THEN out
    ELSE LET p    == cands[i]
             comp == auto_complete_customization(Customization(CandidateCategory(p, req)), p)
         IN  IF OverBudget(req, comp.est_price)
             THEN RankLoop(cands, i + 1, req, out)
             ELSE LET out2 == Append(out, MakeRecommendation(p, req, comp))
                  IN  IF Len(out2) >= 3 THEN out2
                      ELSE RankLoop(cands, i + 1, req, out2)

\* A bug: the seed added to a catalog that has products.
Candidates_SeedAppended(docs) == docs \o seed

\* Lines 189-195.
Candidates(docs) == IF Len(docs) = 0 THEN seed ELSE docs

\* A bug: one candidate too many.
Considered_Seven(cands) == Take(cands, 7)

\* Line 199: products[:6].
Considered(cands) == Take(cands, 6)

\* The handler: get_documents is called outside any try, so a failing store
\* ends the call with the exception.
recommendations(coll, req, dbFails) ==
    IF dbFails
    THEN [status |-> "error", body |-> None, fetched |-> None]
    ELSE LET docs == get_documents(coll, CategoryFilter(req), 50)
         IN  [status |-> "ok",
              body |-> Some([recommendations |-> RankLoop(Considered(Candidates(docs)), 1, req, <<>>)]),
              fetched |-> Some(docs)]

(***************************************************************************)
(* POST /chat                                                              *)
(***************************************************************************)
ChatMessage(role, content) == [role |-> role, content |-> content]

\* Lines 228-229: the lower-cased content of the last message whose role is
\* "user", "" when there is none.
LastUserText(messages) ==
    LET user_texts == SelectSeq(messages, LAMBDA m : m.role = "user")
    IN  Lower(IF Len(user_texts) > 0 THEN user_texts[Len(user_texts)].content ELSE "")

\* A bug: shirt entered before shoes.
cat_map_ShirtFirst ==
    << [k |-> "suit",     kws |-> <<"suit", "tux", "blazer">>],
       [k |-> "boots",    kws |-> <<"boot">>],
       [k |-> "shirt",    kws |-> <<"shirt", "oxford">>],
       [k |-> "shoes",    kws |-> <<"shoe", "oxford", "derby", "loafer">>],
       [k |-> "hat",      kws |-> <<"hat", "fedora", "trilby">>],
       [k |-> "belt",     kws |-> <<"belt">>],
       [k |-> "trousers", kws |-> <<"trouser", "pant", "slacks">>] >>

\* Lines 232-240, in the dict's insertion order.
cat_map ==
    << [k |-> "suit",     kws |-> <<"suit", "tux", "blazer">>],
       [k |-> "boots",    kws |-> <<"boot">>],
       [k |-> "shoes",    kws |-> <<"shoe", "oxford", "derby", "loafer">>],
       [k |-> "hat",      kws |-> <<"hat", "fedora", "trilby">>],
       [k |-> "belt",     kws |-> <<"belt">>],
       [k |-> "shirt",    kws |-> <<"shirt", "oxford">>],
       [k |-> "trousers", kws |-> <<"trouser", "pant", "slacks">>] >>

AnyIn(words, text) == \E i \in 1..Len(words) : Contains(words[i], text)

\* Lines 241-245: the first entry of cat_map with a keyword in the text.
Chosen(last) ==
    LET hits == SelectSeq(cat_map, LAMBDA e : AnyIn(e.kws, last))
    IN  IF Len(hits) > 0 THEN Some(hits[1].k) ELSE None

\* Line 253.
Purpose(last) ==
    IF Contains("wedding", last) THEN "wedding"
    ELSE IF Contains("business", last) THEN "business"
    ELSE "casual"

FixedPrompt ==
    "Tell me what you're looking for (e.g., a navy suit for a wedding, leather boots for winter). I'll recommend configs and pricing."

\* The reply of a branch that called recommendations: the exception of a
\* failing call leaves the handler.
ChatReply(msg, rec, call) ==
    IF rec.status = "ok"
    THEN [status |-> "ok", body |-> Some([reply |-> msg, data |-> rec.body[1]]), calls |-> <<call>>]
    ELSE [status |-> "error", body |-> None, calls |-> <<call>>]

chat(coll, req, dbFails) ==
    LET last   == LastUserText(req.messages)
        chosen == Chosen(last)
    IN  IF chosen # None
        THEN LET call == RecommendationRequest(None, Some("vintage"), None, chosen)
             IN  ChatReply("I recommend these " \o chosen[1]
                             \o " options. Would you like me to tailor the fit and fabric to your climate and occasion?",
                           recommendations(coll, call, dbFails), call)
        ELSE IF AnyIn(<<"wedding", "business", "casual", "black tie">>, last)
        THEN LET call == RecommendationRequest(Some(Purpose(last)), Some("classic"), None, None)
             IN  ChatReply("Here are refined picks for " \o Purpose(last) \o ".",
                           recommendations(coll, call, dbFails), call)
        ELSE [status |-> "ok", body |-> Some([reply |-> FixedPrompt, data |-> EmptyDict]),
              calls |-> <<>>]

(***************************************************************************)
(* Inputs                                                                  *)
(***************************************************************************)
MaxMessages == 2

SuitProduct ==
    Product("Three-Piece Suit", "suit", 120000, <<"Charcoal">>, <<"Cashmere Wool Blend">>,
            <<"M", "L">>, <<"Slim">>, <<"Pinstripe">>)

BeltProduct ==
    Product("Bridle Belt", "belt", 4996, <<>>, <<>>, <<>>, <<>>, <<>>)

\* A product whose option lists start with an empty string.
BlankProduct ==
    Product("Unfinished Hat", "hat", 8052, <<"">>, <<"">>, <<"">>, <<"">>, <<"">>)

Catalogue == {SuitProduct, BeltProduct}

\* The collection after inserting the given products into an empty store.
RECURSIVE Store(_)
Store(ps) ==
    IF Len(ps) = 0 THEN <<>>
    ELSE create_document(Store(SubSeq(ps, 1, Len(ps) - 1)), ps[Len(ps)])

Budgets == {None, Some(0), Some(10500), Some(174999), Some(175000)}

RecRequests ==
    {RecommendationRequest(None, None, b, c) :
        b \in Budgets, c \in {None, Some(""), Some("suit"), Some("hat")}}
    \cup {RecommendationRequest(Some("Beach Wedding"), Some("Vintage"), Some(10500), None),
          RecommendationRequest(None, Some("Classic"), None, Some("belt"))}

Utterances ==
    {"I need a navy suit for a wedding", "something for a wedding", "An Oxford, please",
     "BLACK TIE", "business casual", "hello", "a shirt and a belt", "what?"}

Seqs(S, n) == UNION {[1..m -> S] : m \in 0..n}

Conversations ==
    Seqs({ChatMessage(r, u) : r \in {"user", "assistant"}, u \in Utterances}, MaxMessages)

\* The conversations the system specification sends.
SomeConversations ==
    {<<>>,
     <<ChatMessage("user", "An Oxford, please")>>,
     <<ChatMessage("user", "what?")>>,
     <<ChatMessage("user", "something for a wedding"), ChatMessage("assistant", "a shirt and a belt")>>,
     <<ChatMessage("user", "a shirt and a belt"), ChatMessage("user", "hello")>>}

OptStr(S) == {None, Some("")} \cup {Some(x) : x \in S}

Chests == {None} \cup {Some(Measurement(c)) :
              c \in {None, Some(899), Some(900), Some(959), Some(960),
                     Some(1019), Some(1020), Some(1099), Some(1100)}}

\* The arguments auto_complete_customization is applied to.
CompleteCusts ==
    {[Customization(c) EXCEPT !.color = co, !.fabric = fa, !.size = si, !.fit = fi,
                               !.pattern = pa, !.measurements = m] :
        c \in {"suit", "belt", "cape"},
        co \in OptStr({"red"}),
        fa \in OptStr({"Cashmere Wool Blend", "Irish LINEN", "denim"}),
        si \in OptStr({"XXL"}),
        fi \in OptStr({"Tailored"}),
        pa \in {None, Some("Houndstooth"), Some("pinstriped")},
        m \in Chests}

CompleteProducts ==
    {NoProduct, WithId(Store(<<SuitProduct>>)[1]), WithId(Store(<<BlankProduct>>)[1]),
     Store(<<BeltProduct>>)[1], seed[1]}

\* The requests the system specification sends to /customize.
CustRequests ==
    {[Customization(c) EXCEPT !.product_id = pid, !.measurements = m] :
        c \in {"suit", "cape"},
        pid \in {None, Some(""), Some("not-an-object-id"), Some(OidStr(1)),
                 Some("65F0C0FFEE00000000000002"), Some(OidStr(999))},
        m \in {None, Some(Measurement(Some(1020)))}}

(***************************************************************************)
(* The system: handlers run one at a time against the store                *)
(***************************************************************************)
Idle ==
    /\ pc = "idle"
    /\ op = "none"
    /\ request = None
    /\ response = [status |-> "none", body |-> None]
    /\ fetched = None
    /\ rankerCalls = <<>>

Init ==
    /\ products = <<>>
    /\ Idle

PostProducts ==
    \E product \in Catalogue, dbFails \in BOOLEAN :
        LET r == create_product(products, product, dbFails)
        IN  /\ pc = "idle"
            /\ Len(products) < MaxProducts
            /\ pc' = "done"
            /\ op' = "create_product"
            /\ request' = Some(product)
            /\ response' = [status |-> r.status, body |-> r.body]
            /\ products' = r.coll
            /\ UNCHANGED <<fetched, rankerCalls>>

PostCustomize ==
    \E cust \in CustRequests, dbFails \in BOOLEAN :
        LET r == customize(products, cust, dbFails)
        IN  /\ pc = "idle"
            /\ pc' = "done"
            /\ op' = "customize"
            /\ request' = Some(cust)
            /\ response' = [status |-> r.status, body |-> r.body]
            /\ UNCHANGED <<products, fetched, rankerCalls>>

PostRecommendations ==
    \E req \in RecRequests, dbFails \in BOOLEAN :
        LET r == recommendations(products, req, dbFails)
        IN  /\ pc = "idle"
            /\ pc' = "done"
            /\ op' = "recommendations"
            /\ request' = Some(req)
            /\ response' = [status |-> r.status, body |-> r.body]
            /\ fetched' = r.fetched
            /\ UNCHANGED <<products, rankerCalls>>

PostChat ==
    \E msgs \in SomeConversations, dbFails \in BOOLEAN :
        LET r == chat(products, [messages |-> msgs], dbFails)
        IN  /\ pc = "idle"
            /\ pc' = "done"
            /\ op' = "chat"
            /\ request' = Some([messages |-> msgs])
            /\ response' = [status |-> r.status, body |-> r.body]
            /\ rankerCalls' = r.calls
            /\ UNCHANGED <<products, fetched>>

\* The transport layer hands the response to the caller.
Deliver ==
    /\ pc = "done"
    /\ pc' = "idle"
    /\ op' = "none"
    /\ request' = None
    /\ response' = [status |-> "none", body |-> None]
    /\ fetched' = None
    /\ rankerCalls' = <<>>
    /\ UNCHANGED products

Next == PostProducts \/ PostCustomize \/ PostRecommendations \/ PostChat \/ Deliver

Spec == Init /\ [][Next]_vars

(***************************************************************************)
(* auto_complete_customization applied to drawn arguments                  *)
(***************************************************************************)
InitComplete ==
    /\ products = <<>>
    /\ pc = "idle"
    /\ op = "auto_complete_customization"
    /\ request \in {Some([cust |-> c, product |-> p]) : c \in CompleteCusts, p \in CompleteProducts}
    /\ response = [status |-> "none", body |-> None]
    /\ fetched = None
    /\ rankerCalls = <<>>

AutoComplete ==
    /\ pc = "idle"
    /\ op = "auto_complete_customization"
    /\ pc' = "done"
    /\ response' = [status |-> "ok",
                    body |-> Some(auto_complete_customization(request[1].cust, request[1].product))]
    /\ UNCHANGED <<products, op, request, fetched, rankerCalls>>

NextComplete == AutoComplete

SpecComplete == InitComplete /\ [][NextComplete]_vars

(***************************************************************************)
(* chat applied to drawn conversations                                     *)
(***************************************************************************)
InitChat ==
    /\ products \in {Store(<<>>), Store(<<SuitProduct>>), Store(<<BeltProduct, SuitProduct>>)}
    /\ pc = "idle"
    /\ op = "chat"
    /\ request \in {Some([messages |-> msgs]) : msgs \in Conversations}
    /\ response = [status |-> "none", body |-> None]
    /\ fetched = None
    /\ rankerCalls = <<>>

Chat ==
    \E dbFails \in BOOLEAN :
        LET r == chat(products, request[1], dbFails)
        IN  /\ pc = "idle"
            /\ op = "chat"
            /\ pc' = "done"
            /\ response' = [status |-> r.status, body |-> r.body]
            /\ rankerCalls' = r.calls
            /\ UNCHANGED <<products, op, request, fetched>>

NextChat == Chat

SpecChat == InitChat /\ [][NextChat]_vars

(***************************************************************************)
(* Properties of auto_complete_customization (under SpecComplete)          *)
(***************************************************************************)
CompleteDone == pc = "done" /\ op = "auto_complete_customization"

ChestPresent(cust) ==
    cust.measurements # None /\ cust.measurements[1].chest_cm # None

\* C1: every one of color, fabric, size, fit and pattern that the request
\* supplies with a non-empty value has exactly that value in the returned
\* configuration, whatever the product and the category.
C1_UserFieldsKept ==
    CompleteDone =>
        \A k \in OptionKeys :
            Truthy(request[1].cust[k]) => response.body[1].config[k] = request[1].cust[k]

\* A suit request with color and size supplied, a chest measurement and a
\* product that offers another color and other sizes.
C1_Witness ==
    /\ CompleteDone
    /\ request[1].cust.category = "suit"
    /\ request[1].cust.color = Some("red")
    /\ request[1].cust.size = Some("XXL")
    /\ ChestPresent(request[1].cust)
    /\ HasProduct(request[1].product)
    /\ ProductOptions(request[1].product, "color") = <<"Charcoal">>
    /\ ProductOptions(request[1].product, "size") = <<"M", "L">>
    /\ response.body[1].config.color = Some("red")
    /\ response.body[1].config.size = Some("XXL")

C6_FabricBonus(fabric) ==
    IF Contains("cashmere", Lower(fabric)) THEN 60
    ELSE IF Contains("wool", Lower(fabric)) THEN 25
    ELSE IF Contains("leather", Lower(fabric)) THEN 35
    ELSE IF Contains("linen", Lower(fabric)) THEN 15
    ELSE 0

C6_Multiplier(config) ==
    100
    + (IF Truthy(config.fabric) THEN C6_FabricBonus(config.fabric[1]) ELSE 0)
    + (IF Truthy(config.pattern)
          /\ Lower(config.pattern[1]) \in {"pinstripe", "herringbone", "houndstooth"}
       THEN 10 ELSE 0)
    + (IF Truthy(config.fit) /\ Lower(config.fit[1]) \in {"tailored", "slim"} THEN 5 ELSE 0)

C6_Base(product) == IF HasProduct(product) THEN product.base_price ELSE 30000

\* C6: the estimated price is base * m to the nearest cent, base the
\* product's base_price or 300 without a product, m = 1.0 + one fabric bonus
\* by first match (cashmere .60, wool .25, leather .35, linen .15) + .10 for
\* a pinstripe, herringbone or houndstooth pattern + .05 for a tailored or
\* slim fit, all on the configuration after the fills; a suit with no
\* product and nothing supplied costs 390.00.
C6_PriceFormula ==
    CompleteDone =>
        /\ response.body[1].est_price * 100 - 50
             < C6_Base(request[1].product) * C6_Multiplier(response.body[1].config)
        /\ C6_Base(request[1].product) * C6_Multiplier(response.body[1].config)
             < response.body[1].est_price * 100 + 50
        /\ (/\ request[1].product = NoProduct
            /\ request[1].cust.category = "suit"
            /\ \A k \in OptionKeys \ {"size"} : ~Truthy(request[1].cust[k]))
           => response.body[1].est_price = 39000

\* A cashmere-and-wool fabric with a bonus pattern and fit, no product:
\* 300 * 1.75.
C6_Witness ==
    /\ CompleteDone
    /\ request[1].product = NoProduct
    /\ request[1].cust.fabric = Some("Cashmere Wool Blend")
    /\ request[1].cust.pattern = Some("Houndstooth")
    /\ request[1].cust.fit = Some("Tailored")
    /\ response.body[1].est_price = 52500

\* The value of field k once the request and the product's list have been
\* considered.
AfterProduct(cust, product, k) ==
    IF ~Truthy(cust[k]) /\ HasProduct(product) /\ Len(ProductOptions(product, k)) > 0
    THEN Some(ProductOptions(product, k)[1])
    ELSE cust[k]

\* ... and once the category's default has been considered too.
AfterDefault(cust, product, k) ==
    IF ~Truthy(AfterProduct(cust, product, k))
       /\ cust.category \in DOMAIN defaults
       /\ k \in DOMAIN defaults[cust.category]
    THEN Some(defaults[cust.category][k])
    ELSE AfterProduct(cust, product, k)

\* C8 as stated: an unset field takes the first element of the product's
\* non-empty list, and the category's default only when the product is
\* absent or its list for the field is empty; with neither source the field
\* stays as it was (size inference apart).
C8_ProductBeatsDefault ==
    CompleteDone =>
        \A k \in OptionKeys :
            ~Truthy(request[1].cust[k]) =>
                IF HasProduct(request[1].product)
                   /\ Len(ProductOptions(request[1].product, k)) > 0
                THEN response.body[1].config[k] = Some(ProductOptions(request[1].product, k)[1])
                ELSE IF request[1].cust.category \in DOMAIN defaults
                        /\ k \in DOMAIN defaults[request[1].cust.category]
                THEN response.body[1].config[k] = Some(defaults[request[1].cust.category][k])
                ELSE k = "size" \/ response.body[1].config[k] = request[1].cust[k]

\* C8 amended: an unset field takes the first element of the product's
\* non-empty list; if it is still unset after that (no product, an empty
\* list, or a first element that is itself empty) it takes the category's
\* default; with neither source it stays unset (size inference apart).
C8_FillPriority ==
    CompleteDone =>
        \A k \in OptionKeys :
            \/ response.body[1].config[k] = AfterDefault(request[1].cust, request[1].product, k)
            \/ /\ k = "size"
               /\ ~Truthy(AfterDefault(request[1].cust, request[1].product, k))
               /\ ChestPresent(request[1].cust)

\* A suit request with nothing supplied and a product that offers a fabric:
\* the product's fabric, not "worsted wool".
C8_Witness ==
    /\ CompleteDone
    /\ request[1].cust.category = "suit"
    /\ request[1].cust.fabric = None
    /\ request[1].cust.fit = Some("")
    /\ ProductOptions(request[1].product, "fabric") = <<"Cashmere Wool Blend">>
    /\ response.body[1].config.fabric = Some("Cashmere Wool Blend")
    /\ response.body[1].config.fit = Some("Slim")
    /\ response.body[1].config.color = Some("Charcoal")

C9_Band(chest) ==
    IF chest < 900 THEN "XS"
    ELSE IF 900 <= chest /\ chest < 960 THEN "S"
    ELSE IF 960 <= chest /\ chest < 1020 THEN "M"
    ELSE IF 1020 <= chest /\ chest < 1100 THEN "L"
    ELSE "XL"

\* C9: size is inferred from the chest measurement exactly when it is still
\* unset after the request value and the product's sizes and a chest
\* measurement is present: XS below 90, S from 90, M from 96, L from 102,
\* XL from 110; without product and chest measurement the size is the
\* request's.
C9_SizeInference ==
    CompleteDone =>
        /\ IF ~Truthy(AfterProduct(request[1].cust, request[1].product, "size"))
              /\ ChestPresent(request[1].cust)
           THEN response.body[1].config.size
                    = Some(C9_Band(request[1].cust.measurements[1].chest_cm[1]))
           ELSE response.body[1].config.size
                    = AfterProduct(request[1].cust, request[1].product, "size")
        /\ (request[1].product = NoProduct /\ ~ChestPresent(request[1].cust))
           => response.body[1].config.size = request[1].cust.size

\* A chest of exactly 96 cm and no size from request or product: M.
C9_Witness ==
    /\ CompleteDone
    /\ ~Truthy(request[1].cust.size)
    /\ ProductOptions(request[1].product, "size") = <<>>
    /\ ChestPresent(request[1].cust)
    /\ request[1].cust.measurements[1].chest_cm = Some(960)
    /\ response.body[1].config.size = Some("M")

(***************************************************************************)
(* Properties of recommendations and of the handlers (under Spec)          *)
(***************************************************************************)
RecDone == pc = "done" /\ op = "recommendations" /\ response.status = "ok"

\* The estimated price the ranker computes for candidate p.
CandidatePrice(p, req) ==
    auto_complete_customization(Customization(CandidateCategory(p, req)), p).est_price

\* C2: with a budget set (any value from 0 up) every recommendation returned
\* has est_price <= budget * 1.2.
C2_WithinBudget ==
    (RecDone /\ request[1].budget # None) =>
        \A i \in 1..Len(response.body[1].recommendations) :
            response.body[1].recommendations[i].est_price * 10 <= request[1].budget[1] * 12

\* C3: a call of recommendations or customize always returns a value, also
\* when the catalog accessor fails.
C3_AlwaysReturns ==
    (pc = "done" /\ op \in {"recommendations", "customize"}) => response.status = "ok"

\* C4: recommendations returns at most 3 items, and they are exactly the
\* first up-to-3 of the first 6 candidates that pass the budget filter, in
\* candidate order; a candidate at position 7 or later is never returned.
C4_FirstThreeOfSix ==
    RecDone =>
        LET req      == request[1]
            out      == response.body[1].recommendations
            cands    == IF Len(fetched[1]) = 0 THEN seed ELSE fetched[1]
            firstSix == SubSeq(cands, 1, IF Len(cands) < 6 THEN Len(cands) ELSE 6)
            passing  == SelectSeq(firstSix, LAMBDA p : ~OverBudget(req, CandidatePrice(p, req)))
        IN  /\ Len(out) <= 3
            /\ Len(out) = (IF Len(passing) < 3 THEN Len(passing) ELSE 3)
            /\ \A i \in 1..Len(out) :
                   /\ out[i].title = passing[i].title
                   /\ out[i].est_price = CandidatePrice(passing[i], req)
                   /\ out[i].product_id =
                        (IF "_id" \in DOMAIN passing[i] THEN Some(OidStr(passing[i]._id)) ELSE None)

\* Seven candidates, the first six over budget and the seventh within it:
\* nothing is returned.
C4_Witness ==
    /\ RecDone
    /\ Len(fetched[1]) >= 7
    /\ ~OverBudget(request[1], CandidatePrice(fetched[1][7], request[1]))
    /\ \A i \in 1..6 : OverBudget(request[1], CandidatePrice(fetched[1][i], request[1]))
    /\ Len(response.body[1].recommendations) = 0

\* The fallback seed as C5 names it, with the estimated price of each item:
\* 1200 * 1.30 (worsted wool, tailored), 380 * 1.35 (leather), 120 * 1.05
\* (slim).
C5_Seed ==
    << [category |-> "suit", est_price |-> 156000],
       [category |-> "boots", est_price |-> 51300],
       [category |-> "shirt", est_price |-> 12600] >>

\* C5: when the catalog query returns no product the recommendations come
\* from the three-item seed (suit at 1200, boots at 380, shirt at 120, in
\* that order) and have product_id = null; when it returns a product the
\* seed is not used.
C5_SeedOnlyWhenEmpty ==
    RecDone =>
        LET out == response.body[1].recommendations
        IN  IF Len(fetched[1]) = 0
            THEN /\ \A i \in 1..Len(out) :
                        /\ out[i].product_id = None
                        /\ \E j \in 1..3 :
                              /\ out[i].category = C5_Seed[j].category
                              /\ out[i].est_price = C5_Seed[j].est_price
                 /\ \A i, k \in 1..Len(out) :
                        i < k => \E j, l \in 1..3 :
                                    /\ j < l
                                    /\ out[i].category = C5_Seed[j].category
                                    /\ out[k].category = C5_Seed[l].category
                 /\ ~TruthyNum(request[1].budget) => Len(out) = 3
            ELSE \A i \in 1..Len(out) :
                    /\ out[i].product_id # None
                    /\ \E j \in 1..Len(fetched[1]) :
                          /\ out[i].product_id = Some(OidStr(fetched[1][j]._id))
                          /\ out[i].title = fetched[1][j].title

\* The store has products, the query for the category has none: the seed.
C5_Witness ==
    /\ RecDone
    /\ Len(products) > 0
    /\ Len(fetched[1]) = 0
    /\ Len(response.body[1].recommendations) = 3
    /\ response.body[1].recommendations[1].product_id = None
    /\ response.body[1].recommendations[3].category = "shirt"

\* C10: when the request names a category (also the request the chat router
\* issues for a category keyword), every recommendation returned has it.
C10_CategoryRespected ==
    /\ (RecDone /\ Truthy(request[1].category)) =>
           \A i \in 1..Len(response.body[1].recommendations) :
               response.body[1].recommendations[i].category = request[1].category[1]
    /\ (/\ pc = "done" /\ op = "chat" /\ response.status = "ok"
        /\ Len(rankerCalls) > 0 /\ Truthy(rankerCalls[1].category)) =>
           \A i \in 1..Len(response.body[1].data.recommendations) :
               response.body[1].data.recommendations[i].category = rankerCalls[1].category[1]

(***************************************************************************)
(* Properties of chat (under SpecChat)                                     *)
(***************************************************************************)
ChatDone == pc = "done" /\ op = "chat"

\* The most recent message with role "user", lower-cased; "" without one.
C7_Last(messages) ==
    IF \E i \in 1..Len(messages) : messages[i].role = "user"
    THEN LET i == CHOOSE j \in 1..Len(messages) :
                     /\ messages[j].role = "user"
                     /\ \A l \in (j + 1)..Len(messages) : messages[l].role # "user"
         IN  Lower(messages[i].content)
    ELSE ""

\* The category C7's priority order gives a text, "" when no keyword occurs.
C7_Category(t) ==
    IF Contains("suit", t) \/ Contains("tux", t) \/ Contains("blazer", t) THEN "suit"
    ELSE IF Contains("boot", t) THEN "boots"
    ELSE IF Contains("shoe", t) \/ Contains("oxford", t) \/ Contains("derby", t)
            \/ Contains("loafer", t) THEN "shoes"
    ELSE IF Contains("hat", t) \/ Contains("fedora", t) \/ Contains("trilby", t) THEN "hat"
    ELSE IF Contains("belt", t) THEN "belt"
    ELSE IF Contains("shirt", t) THEN "shirt"
    ELSE IF Contains("trouser", t) \/ Contains("pant", t) \/ Contains("slacks", t) THEN "trousers"
    ELSE ""

C7_HasPurpose(t) ==
    Contains("wedding", t) \/ Contains("business", t) \/ Contains("casual", t)
    \/ Contains("black tie", t)

C7_Purpose(t) ==
    IF Contains("wedding", t) THEN "wedding"
    ELSE IF Contains("business", t) THEN "business"
    ELSE "casual"

\* C7: the router decides from the most recent user message alone: a
\* category keyword first (first category in the order suit, boots, shoes,
\* hat, belt, shirt, trousers; ranker called with it and style "vintage",
\* the reply names it), else an occasion keyword (purpose wedding, else
\* business, else casual; ranker called with it and style "classic", reply
\* "Here are refined picks for {purpose}."), else the fixed prompt with
\* empty data and no ranker call.
C7_Routing ==
    ChatDone =>
        LET t == C7_Last(request[1].messages)
            c == C7_Category(t)
        IN  IF c # ""
            THEN /\ Len(rankerCalls) = 1
                 /\ rankerCalls[1].category = Some(c)
                 /\ rankerCalls[1].style = Some("vintage")
                 /\ rankerCalls[1].purpose = None
                 /\ response.status = "ok" =>
                        /\ Contains("I recommend these " \o c \o " options.", response.body[1].reply)
                        /\ "recommendations" \in DOMAIN response.body[1].data
            ELSE IF C7_HasPurpose(t)
            THEN /\ Len(rankerCalls) = 1
                 /\ rankerCalls[1].purpose = Some(C7_Purpose(t))
                 /\ rankerCalls[1].style = Some("classic")
                 /\ rankerCalls[1].category = None
                 /\ response.status = "ok" =>
                        /\ response.body[1].reply
                             = "Here are refined picks for " \o C7_Purpose(t) \o "."
                        /\ "recommendations" \in DOMAIN response.body[1].data
            ELSE /\ rankerCalls = <<>>
                 /\ response.status = "ok"
                 /\ response.body[1].reply = FixedPrompt
                 /\ DOMAIN response.body[1].data = {}

\* "An Oxford, please" from the user, then an assistant message with other
\* keywords: shoes.
C7_Witness ==
    /\ ChatDone
    /\ request[1].messages = << ChatMessage("user", "An Oxford, please"),
                                ChatMessage("assistant", "a shirt and a belt") >>
    /\ response.status = "ok"
    /\ rankerCalls[1].category = Some("shoes")
    /\ Contains("shoes", response.body[1].reply)

====
